---- MODULE Spec2Model ----
(***************************************************************************)
(* A model of lib/suppressions.cpp (cppcheck): the suppression list, its   *)
(* two parsers, the record validator, the glob matcher, the suppression    *)
(* matcher and the unmatched-suppression queries.                          *)
(*                                                                         *)
(* A std::string is a sequence of characters; a character is a one-letter  *)
(* TLA+ string ("a", ":", "\n"), and "0xE9" stands for the single byte     *)
(* 0xE9.  An error message is a sequence whose fixed parts are kept as     *)
(* whole pieces; the empty string is << >>.                                *)
(***************************************************************************)
EXTENDS Integers, Sequences, FiniteSets, TLC

VARIABLES
    _suppressions,  \* Suppressions::_suppressions, the list of rules
    op,             \* the member function that ran last ("none" before any)
    arg,            \* its argument(s)
    ret,            \* its return value
    queries         \* history: the diagnostics queried so far, each with the
                    \* length of the list at the time of the query

vars == <<_suppressions, op, arg, ret, queries>>

----------------------------------------------------------------------------
(* Bounds of the model.                                                    *)

MaxIdLen == 3       \* longest errorId handed to addSuppression (SpecAdd)
MaxGlobLen == 3     \* longest pattern and longest name (SpecGlob)
MaxLineLen == 5     \* longest line handed to addSuppressionLine (SpecLine)
MaxFileLen == 5     \* longest stream contents handed to parseFile (SpecFile)
MaxElements == 2    \* most child elements of the XML root (SpecXml)
MaxTokens == 2      \* most tokens of a diagnostic's symbolNames (SpecMatch)
MaxOps == 3         \* most additions plus queries in a run (Spec)

----------------------------------------------------------------------------
(* Strings.                                                                *)

RECURSIVE StringsUpTo(_, _)
\* Every string over alphabet of length at most n.
StringsUpTo(alphabet, n) ==
    IF n = 0 THEN {<< >>}
    ELSE LET shorter == StringsUpTo(alphabet, n - 1)
         IN  shorter \cup {Append(s, c) : s \in shorter, c \in alphabet}

NUL == "\\0"        \* the terminator c_str() puts after the last character

\* s[i] of a 0-based C string, with the terminator after the last character.
At(s, i) == IF i < Len(s) THEN s[i + 1] ELSE NUL

\* std::string::substr(pos) and std::string::erase(pos), 0-based.
substr(s, pos) == SubSeq(s, pos + 1, Len(s))
erase(s, pos) == SubSeq(s, 1, pos)

npos == -1          \* std::string::npos, the "not found" position

RECURSIVE find(_, _, _)
\* std::string::find(sub, pos): the first position >= pos where sub occurs.
find(s, sub, pos) ==
    IF pos + Len(sub) > Len(s) THEN npos
    ELSE IF SubSeq(s, pos + 1, pos + Len(sub)) = sub THEN pos
    ELSE find(s, sub, pos + 1)

\* std::string::rfind(c): the last position of the character c.
rfind(s, c) ==
    IF \E i \in 1..Len(s) : s[i] = c
    THEN (CHOOSE i \in 1..Len(s) :
              s[i] = c /\ \A j \in (i + 1)..Len(s) : s[j] # c) - 1
    ELSE npos

\* The ASCII letters and digits in the order of their codes.
UpperCase ==
    <<"A", "B", "C", "D", "E", "F", "G", "H", "I", "J", "K", "L", "M",
      "N", "O", "P", "Q", "R", "S", "T", "U", "V", "W", "X", "Y", "Z">>
LowerCase ==
    <<"a", "b", "c", "d", "e", "f", "g", "h", "i", "j", "k", "l", "m",
      "n", "o", "p", "q", "r", "s", "t", "u", "v", "w", "x", "y", "z">>
DecimalDigits == <<"0", "1", "2", "3", "4", "5", "6", "7", "8", "9">>

IndexIn(seq, c) == CHOOSE i \in 1..Len(seq) : seq[i] = c
Range(seq) == {seq[i] : i \in 1..Len(seq)}

\* The value of a character as a char (signed, as on x86: the byte 0xE9 is
\* negative).
Code(c) ==
    CASE c \in Range(UpperCase) -> 64 + IndexIn(UpperCase, c)
      [] c \in Range(LowerCase) -> 96 + IndexIn(LowerCase, c)
      [] c \in Range(DecimalDigits) -> 47 + IndexIn(DecimalDigits, c)
      [] c = "_" -> 95  [] c = "*" -> 42  [] c = "-" -> 45
      [] c = "+" -> 43  [] c = ":" -> 58  [] c = "." -> 46
      [] c = "/" -> 47  [] c = "\\" -> 92 [] c = " " -> 32
      [] c = "\n" -> 10 [] c = "\r" -> 13 [] c = "0xE9" -> 0 - 23

\* <cctype> in the "C" locale.
isdigit(c) == Code(c) \in 48..57
isalnum(c) == isdigit(c) \/ Code(c) \in 65..90 \/ Code(c) \in 97..122
isspace(c) == Code(c) = 32 \/ Code(c) \in 9..13

----------------------------------------------------------------------------
(* The records.                                                            *)

\* A default-constructed Suppression.
Suppression ==
    [errorId |-> << >>, fileName |-> << >>, lineNumber |-> 0,
     symbolName |-> << >>, matched |-> FALSE]

NoArg == [none |-> TRUE]

----------------------------------------------------------------------------
(* Suppressions::addSuppression                                            *)

NoIdMessage == <<"Failed to add suppression. No id.">>
InvalidIdMessage(errorId) ==
    <<"Failed to add suppression. Invalid id \"">> \o errorId \o <<"\"">>

\* InvalidIdAt without the test of the first character for a digit.
InvalidIdAtNoDigitTest(errorId, pos) ==
    \/ Code(errorId[pos + 1]) < 0
    \/ (~isalnum(errorId[pos + 1]) /\ errorId[pos + 1] # "_")

\* One round of the loop over errorId: does position pos (0-based) return
\* the "Invalid id" message?
InvalidIdAt(errorId, pos) ==
    \/ Code(errorId[pos + 1]) < 0
    \/ (~isalnum(errorId[pos + 1]) /\ errorId[pos + 1] # "_")
    \/ (pos = 0 /\ isdigit(errorId[pos + 1]))

\* The message addSuppression returns for the record, << >> when it accepts.
addSuppressionMessage(suppression) ==
    IF suppression.errorId = << >> THEN NoIdMessage
    ELSE IF /\ suppression.errorId # <<"*">>
            /\ \E pos \in 0..(Len(suppression.errorId) - 1) :
                   InvalidIdAt(suppression.errorId, pos)
         THEN InvalidIdMessage(suppression.errorId)
         ELSE << >>

\* The list after addSuppression(suppression).
addSuppressionList(list, suppression) ==
    IF addSuppressionMessage(suppression) = << >>
    THEN Append(list, suppression)
    ELSE list

----------------------------------------------------------------------------
(* SpecAdd: one call of addSuppression on a drawn record and a drawn list. *)

IdChars == {"a", "1", "_", "*", "-", "0xE9"}

\* The other three fields, as the caller set them: all "any", or all given.
OtherFields ==
    {[fileName |-> << >>, lineNumber |-> 0, symbolName |-> << >>],
     [fileName |-> <<"a", ".", "a">>, lineNumber |-> 1, symbolName |-> <<"a">>]}

AddInputs ==
    {[Suppression EXCEPT !.errorId = id, !.fileName = o.fileName,
                         !.lineNumber = o.lineNumber,
                         !.symbolName = o.symbolName] :
         id \in StringsUpTo(IdChars, MaxIdLen), o \in OtherFields}

\* A rule that an earlier call put in the list.
EarlierRule == [Suppression EXCEPT !.errorId = <<"a">>]

InitAdd ==
    /\ _suppressions \in {<< >>, <<EarlierRule>>}
    /\ op = "none"
    /\ arg \in AddInputs
    /\ ret = << >>
    /\ queries = << >>

addSuppressionCall ==
    /\ op = "none"
    /\ op' = "addSuppression"
    /\ ret' = addSuppressionMessage(arg)
    /\ _suppressions' = addSuppressionList(_suppressions, arg)
    /\ UNCHANGED <<arg, queries>>

NextAdd == addSuppressionCall

SpecAdd == InitAdd /\ [][NextAdd]_vars

\* What the validator is to accept: "*" or [A-Za-z_][A-Za-z0-9_]*.
Letters == Range(UpperCase) \cup Range(LowerCase)
Digits == Range(DecimalDigits)
IsIdentifier(id) ==
    /\ id # << >>
    /\ id[1] \in Letters \cup {"_"}
    /\ \A i \in 1..Len(id) : id[i] \in Letters \cup Digits \cup {"_"}

\* C1: addSuppression returns the empty string and appends the record at the
\* end of the list exactly when errorId is "*" or an identifier
\* [A-Za-z_][A-Za-z0-9_]*; for every other errorId it returns a non-empty
\* message and leaves the list unchanged, whatever the other fields are.
C1_AddSuppressionValidates ==
    [][op' = "addSuppression" =>
         IF arg'.errorId = <<"*">> \/ IsIdentifier(arg'.errorId)
         THEN ret' = << >> /\ _suppressions' = Append(_suppressions, arg')
         ELSE ret' # << >> /\ _suppressions' = _suppressions]_vars

\* An identifier with a digit and an underscore was accepted behind an
\* earlier rule although its other fields are set.
C1_Witness ==
    /\ op = "addSuppression"
    /\ arg.errorId = <<"_", "1", "a">>
    /\ arg.lineNumber = 1
    /\ ret = << >>
    /\ Len(_suppressions) = 2
    /\ _suppressions[2] = arg

----------------------------------------------------------------------------
(* matchglob                                                               *)

RECURSIVE skipToNext(_, _, _)
\* The loop of case '*': step n forward until the name ends or its character
\* is c, the pattern's character after the '*'.
skipToNext(name, n, c) ==
    IF At(name, n) # NUL /\ At(name, n) # c
    THEN skipToNext(name, n + 1, c)
    ELSE n

\* One round of the inner while loop: the switch on *p, then p++.
globStep(pattern, name, st) ==
    LET c == At(pattern, st.p)
        after ==
            CASE c = "*" ->
                   LET n2 == skipToNext(name, st.n, At(pattern, st.p + 1))
                   IN  [st EXCEPT !.n = n2,
                                  !.backtrack =
                                      IF At(name, n2) # NUL
                                      THEN Append(@, <<st.p, n2>>)
                                      ELSE @]
              [] c = "?" ->
                   IF At(name, st.n) # NUL
                   THEN [st EXCEPT !.n = @ + 1]
                   ELSE [st EXCEPT !.matching = FALSE]
              [] OTHER ->
                   IF At(name, st.n) = c
                   THEN [st EXCEPT !.n = @ + 1]
                   ELSE [st EXCEPT !.matching = FALSE]
    IN  [after EXCEPT !.p = @ + 1]

RECURSIVE globScan(_, _, _)
\* while (*p != '\0' && matching) { ... }
globScan(pattern, name, st) ==
    IF At(pattern, st.p) # NUL /\ st.matching
    THEN globScan(pattern, name, globStep(pattern, name, st))
    ELSE st

RECURSIVE globLoop(_, _, _, _, _)
\* One round of for (;;), entered with the cursors p and n and the stack.
globLoop(pattern, name, p, n, backtrack) ==
    LET st == globScan(pattern, name,
                       [p |-> p, n |-> n, matching |-> TRUE,
                        backtrack |-> backtrack])
    IN  IF st.matching /\ At(name, st.n) = NUL THEN TRUE
        ELSE IF st.backtrack = << >> THEN FALSE
        ELSE LET top == st.backtrack[Len(st.backtrack)]
             IN  globLoop(pattern, name, top[1], top[2] + 1,
                          SubSeq(st.backtrack, 1, Len(st.backtrack) - 1))

matchglob(pattern, name) == globLoop(pattern, name, 0, 0, << >>)

----------------------------------------------------------------------------
(* SpecGlob: one call of matchglob on a drawn pattern and a drawn name.    *)

NameChars == {"a", "b"}
PatternChars == NameChars \cup {"*", "?"}

InitGlob ==
    /\ _suppressions = << >>
    /\ op = "none"
    /\ arg \in [pattern : StringsUpTo(PatternChars, MaxGlobLen),
                name : StringsUpTo(NameChars, MaxGlobLen)]
    /\ ret = FALSE
    /\ queries = << >>

matchglobCall ==
    /\ op = "none"
    /\ op' = "matchglob"
    /\ ret' = matchglob(arg.pattern, arg.name)
    /\ UNCHANGED <<_suppressions, arg, queries>>

NextGlob == matchglobCall

SpecGlob == InitGlob /\ [][NextGlob]_vars

RECURSIVE GlobMatches(_, _)
\* The wildcard semantics: '*' is any string, '?' any one character.
GlobMatches(pattern, name) ==
    IF pattern = << >> THEN name = << >>
    ELSE IF Head(pattern) = "*"
         THEN \E k \in 0..Len(name) :
                  GlobMatches(Tail(pattern), substr(name, k))
         ELSE /\ name # << >>
              /\ Head(pattern) = "?" \/ Head(pattern) = Head(name)
              /\ GlobMatches(Tail(pattern), Tail(name))

RECURSIVE CollapseStars(_)
\* The pattern with every run of '*' replaced by one '*'.
CollapseStars(pattern) ==
    IF Len(pattern) < 2 THEN pattern
    ELSE IF pattern[1] = "*" /\ pattern[2] = "*"
         THEN CollapseStars(Tail(pattern))
         ELSE <<Head(pattern)>> \o CollapseStars(Tail(pattern))

\* C2: matchglob returns true exactly when name matches pattern under the
\* wildcard semantics ('*' any string, '?' any one character, any other
\* character itself), and a run of '*' gives the result of a single '*'.
C2_MatchglobIsGlob ==
    op = "matchglob" =>
        /\ ret = GlobMatches(arg.pattern, arg.name)
        /\ ret = matchglob(CollapseStars(arg.pattern), arg.name)

----------------------------------------------------------------------------
(* Suppressions::Suppression::isMatch, isSuppressed, isSuppressedLocal     *)

\* The value isMatch returns for the rule s and the diagnostic errmsg.
isMatch(s, errmsg) ==
    IF s.errorId # << >> /\ s.errorId # errmsg.errorId THEN FALSE
    ELSE IF s.fileName # << >> /\ s.fileName # errmsg.fileName THEN FALSE
    ELSE IF s.lineNumber > 0 /\ s.lineNumber # errmsg.lineNumber THEN FALSE
    ELSE IF /\ s.symbolName # << >>
            /\ find(errmsg.symbolNames, Append(s.symbolName, "\n"), 0) = npos
         THEN FALSE
    ELSE TRUE

\* The rule after s.isMatch(errmsg): matched is set when it returns true.
isMatchObject(s, errmsg) ==
    IF isMatch(s, errmsg) THEN [s EXCEPT !.matched = TRUE] ELSE s

RECURSIVE scanAllFrom(_, _, _, _)
\* The scan without the return at the first match: every rule is asked.
scanAllFrom(list, errmsg, i, found) ==
    IF i > Len(list) THEN [list |-> list, found |-> found]
    ELSE scanAllFrom([list EXCEPT ![i] = isMatchObject(list[i], errmsg)],
                     errmsg, i + 1, found \/ isMatch(list[i], errmsg))
scanAll(list, errmsg, i) == scanAllFrom(list, errmsg, i, FALSE)

RECURSIVE scan(_, _, _)
\* for (Suppression &s : _suppressions) if (s.isMatch(errmsg)) return true;
\* from the i-th rule on: the list afterwards and the value returned.
scan(list, errmsg, i) ==
    IF i > Len(list) THEN [list |-> list, found |-> FALSE]
    ELSE IF isMatch(list[i], errmsg)
         THEN [list |-> [list EXCEPT ![i] = isMatchObject(list[i], errmsg)],
               found |-> TRUE]
         ELSE scan(list, errmsg, i + 1)

isSuppressed(errmsg) ==
    /\ op' = "isSuppressed"
    /\ arg' = errmsg
    /\ ret' = scan(_suppressions, errmsg, 1).found
    /\ _suppressions' = scan(_suppressions, errmsg, 1).list
    /\ queries' = Append(queries, [errmsg |-> errmsg, n |-> Len(_suppressions)])

isSuppressedLocal(errmsg) ==
    /\ op' = "isSuppressedLocal"
    /\ arg' = errmsg
    /\ ret' = scan(_suppressions, errmsg, 1).found
    /\ _suppressions' = scan(_suppressions, errmsg, 1).list
    /\ queries' = Append(queries, [errmsg |-> errmsg, n |-> Len(_suppressions)])

addSuppression(suppression) ==
    /\ op' = "addSuppression"
    /\ arg' = suppression
    /\ ret' = addSuppressionMessage(suppression)
    /\ _suppressions' = addSuppressionList(_suppressions, suppression)
    /\ UNCHANGED queries

----------------------------------------------------------------------------
(* SpecMatch: one query against a list that holds one drawn rule.          *)

SymbolChars == {"x", "y"}
Symbols == StringsUpTo(SymbolChars, 2) \ {<< >>}

RECURSIVE SymbolLists(_)
\* symbolNames: at most n tokens, each followed by a newline.
SymbolLists(n) ==
    IF n = 0 THEN {<< >>}
    ELSE SymbolLists(n - 1) \cup
         {l \o Append(t, "\n") : l \in SymbolLists(n - 1), t \in Symbols}

MatchRules ==
    {[Suppression EXCEPT !.errorId = id, !.fileName = f, !.lineNumber = l,
                         !.symbolName = sym] :
         id \in {<<"a">>, <<"b">>}, f \in {<< >>, <<"f">>}, l \in {0, 1},
         sym \in Symbols \cup {<< >>}}

MatchDiagnostics ==
    [errorId : {<<"a">>}, fileName : {<<"f">>}, lineNumber : {1, 2},
     symbolNames : SymbolLists(MaxTokens)]

InitMatch ==
    /\ _suppressions \in {<<s>> : s \in MatchRules}
    /\ op = "none"
    /\ arg \in MatchDiagnostics
    /\ ret = FALSE
    /\ queries = << >>

NextMatch == op = "none" /\ isSuppressed(arg)

SpecMatch == InitMatch /\ [][NextMatch]_vars

\* The tokens of symbolNames: the pieces that end at a newline.
TokensOf(symbolNames) ==
    {SubSeq(symbolNames, i, j) :
        <<i, j>> \in {<<i, j>> \in (1..Len(symbolNames)) \X (0..Len(symbolNames)) :
                        /\ i <= j + 1
                        /\ j < Len(symbolNames) /\ symbolNames[j + 1] = "\n"
                        /\ i = 1 \/ symbolNames[i - 1] = "\n"
                        /\ \A k \in i..j : symbolNames[k] # "\n"}}

\* C4: a rule with a non-empty symbolName (whose other three constraints the
\* diagnostic satisfies) matches exactly when symbolName is equal to one
\* complete token of the diagnostic's symbolNames.
C4_SymbolIsWholeToken ==
    (/\ op = "isSuppressed"
     /\ _suppressions[1].symbolName # << >>
     /\ _suppressions[1].errorId = arg.errorId
     /\ _suppressions[1].fileName \in {<< >>, arg.fileName}
     /\ _suppressions[1].lineNumber \in {0, arg.lineNumber})
        => (ret <=> _suppressions[1].symbolName \in TokensOf(arg.symbolNames))

----------------------------------------------------------------------------
(* Spec: any run of additions and queries on one Suppressions object.      *)

\* The records handed to addSuppression: eight valid rules and one whose id
\* is rejected.
Rules ==
    {[Suppression EXCEPT !.errorId = id, !.fileName = f,
                         !.lineNumber = o.lineNumber,
                         !.symbolName = o.symbolName] :
         id \in {<<"a">>, <<"*">>}, f \in {<< >>, <<"f">>},
         o \in {[lineNumber |-> 0, symbolName |-> << >>],
                [lineNumber |-> 1, symbolName |-> <<"x">>]}}
      \cup {[Suppression EXCEPT !.errorId = <<"1">>]}

Diagnostics ==
    {[errorId |-> id, fileName |-> f, lineNumber |-> o.lineNumber,
      symbolNames |-> o.symbolNames] :
         id \in {<<"a">>, <<"b">>}, f \in {<<"f">>, <<"g">>},
         o \in {[lineNumber |-> 1, symbolNames |-> <<"x", "\n">>],
                [lineNumber |-> 2, symbolNames |-> <<"y", "\n">>]}}

Init ==
    /\ _suppressions = << >>
    /\ op = "none"
    /\ arg = NoArg
    /\ ret = << >>
    /\ queries = << >>

\* The run is cut after MaxOps additions and queries.
MayGrow == Len(_suppressions) + Len(queries) < MaxOps

Next ==
    \/ \E s \in Rules : MayGrow /\ addSuppression(s)
    \/ \E e \in Diagnostics : MayGrow /\ isSuppressed(e)
    \/ \E e \in Diagnostics : MayGrow /\ isSuppressedLocal(e)

Spec == Init /\ [][Next]_vars

IsQuery == op \in {"isSuppressed", "isSuppressedLocal"}

\* A rule whose four fields are all "any".
AllAny(s) ==
    /\ s.errorId = <<"*">>
    /\ s.fileName = << >>
    /\ s.lineNumber <= 0
    /\ s.symbolName = << >>

\* C3: once a rule whose four fields are all "any" (errorId "*", empty
\* fileName, lineNumber <= 0, empty symbolName) is in the list, isSuppressed
\* returns true for every diagnostic.
C3_AllAnyMatchesEverything ==
    (IsQuery /\ \E i \in 1..Len(_suppressions) : AllAny(_suppressions[i]))
        => ret = TRUE

\* The four constraints of a rule, as section 4.5 states them: the errorId
\* is empty or equal, the fileName is empty or equal, the lineNumber is <= 0
\* or equal, the symbolName is empty or symbolName + newline occurs in
\* symbolNames.
Occurs(sub, s) ==
    \E i \in 0..(Len(s) - Len(sub)) : SubSeq(s, i + 1, i + Len(sub)) = sub
Satisfies(s, errmsg) ==
    /\ s.errorId \in {<< >>, errmsg.errorId}
    /\ s.fileName \in {<< >>, errmsg.fileName}
    /\ s.lineNumber <= 0 \/ s.lineNumber = errmsg.lineNumber
    /\ s.symbolName = << >> \/ Occurs(s.symbolName \o <<"\n">>, errmsg.symbolNames)

\* Is rule i the first of the first n rules of list that errmsg satisfies?
IsFirstSatisfied(list, n, errmsg, i) ==
    /\ i <= n
    /\ Satisfies(list[i], errmsg)
    /\ \A k \in 1..(i - 1) : ~Satisfies(list[k], errmsg)

\* C10: a rule's matched flag is true exactly when some query already made
\* had that rule as the first rule, in the list as it was at the query,
\* whose four constraints the diagnostic satisfies; a query sets the flag of
\* its first such rule and changes nothing else (nothing at all when there
\* is none), and an addition changes no rule that is in the list.
C10_MatchedIffFirstMatch ==
    /\ [](\A i \in 1..Len(_suppressions) :
              _suppressions[i].matched <=>
                  \E q \in 1..Len(queries) :
                      IsFirstSatisfied(_suppressions, queries[q].n,
                                       queries[q].errmsg, i))
    /\ [][op' \in {"isSuppressed", "isSuppressedLocal"} =>
            /\ Len(_suppressions') = Len(_suppressions)
            /\ ret' = (\E i \in 1..Len(_suppressions) :
                           Satisfies(_suppressions[i], arg'))
            /\ \A i \in 1..Len(_suppressions) :
                   _suppressions'[i] =
                       IF IsFirstSatisfied(_suppressions, Len(_suppressions),
                                           arg', i)
                       THEN [_suppressions[i] EXCEPT !.matched = TRUE]
                       ELSE _suppressions[i]]_vars
    /\ [][op' = "addSuppression" =>
            \A i \in 1..Len(_suppressions) :
                _suppressions'[i] = _suppressions[i]]_vars

\* The diagnostic of the last query satisfies the first two rules: the
\* first is marked and the second is not.
C10_Witness ==
    /\ IsQuery
    /\ Len(_suppressions) >= 2
    /\ Satisfies(_suppressions[1], arg)
    /\ Satisfies(_suppressions[2], arg)
    /\ _suppressions[1].matched
    /\ ~_suppressions[2].matched

----------------------------------------------------------------------------
(* getUnmatchedLocalSuppressions, getUnmatchedGlobalSuppressions           *)

\* Both bodies are "std::list<Suppression> result; return result;": what
\* would fill the list is commented out.
getUnmatchedLocalSuppressions(file, unusedFunctionChecking) ==
    /\ op' = "getUnmatchedLocalSuppressions"
    /\ arg' = [file |-> file, unusedFunctionChecking |-> unusedFunctionChecking]
    /\ ret' = << >>
    /\ UNCHANGED <<_suppressions, queries>>

getUnmatchedGlobalSuppressions(unusedFunctionChecking) ==
    /\ op' = "getUnmatchedGlobalSuppressions"
    /\ arg' = [file |-> << >>, unusedFunctionChecking |-> unusedFunctionChecking]
    /\ ret' = << >>
    /\ UNCHANGED <<_suppressions, queries>>

----------------------------------------------------------------------------
(* SpecUnmatched: additions and queries, then the unmatched-rule queries.  *)

unusedFunction ==
    <<"u", "n", "u", "s", "e", "d", "F", "u", "n", "c", "t", "i", "o", "n">>

UnmatchedRules ==
    {[Suppression EXCEPT !.errorId = id, !.fileName = f] :
         id \in {<<"a">>, unusedFunction}, f \in {<< >>, <<"f">>}}

UnmatchedDiagnostics ==
    [errorId : {<<"a">>, unusedFunction}, fileName : {<<"f">>},
     lineNumber : {1}, symbolNames : {<< >>}]

NextUnmatched ==
    \/ \E s \in UnmatchedRules : MayGrow /\ addSuppression(s)
    \/ \E e \in UnmatchedDiagnostics : MayGrow /\ isSuppressed(e)
    \/ \E f \in {<<"f">>, <<"g">>}, flag \in BOOLEAN :
           getUnmatchedLocalSuppressions(f, flag)
    \/ \E flag \in BOOLEAN : getUnmatchedGlobalSuppressions(flag)

SpecUnmatched == Init /\ [][NextUnmatched]_vars

\* The rules an unmatched-rule query is to return: not matched, with the
\* given file constraint, and not for unusedFunction unless the flag is set.
Unmatched(file, unusedFunctionChecking) ==
    {s \in Range(_suppressions) :
        /\ ~s.matched
        /\ s.fileName = file
        /\ unusedFunctionChecking \/ s.errorId # unusedFunction}

\* C9: getUnmatchedLocalSuppressions(file, flag) returns every rule whose
\* matched flag is still false and whose file constraint is that file,
\* getUnmatchedGlobalSuppressions(flag) every rule whose matched flag is
\* still false and that has no file constraint; without the flag the rules
\* for unusedFunction are left out of both.
C9_UnmatchedAreReported ==
    op \in {"getUnmatchedLocalSuppressions", "getUnmatchedGlobalSuppressions"}
        => Range(ret) = Unmatched(arg.file, arg.unusedFunctionChecking)

----------------------------------------------------------------------------
(* Suppressions::addSuppressionLine                                        *)

IntMax == 2147483647    \* the largest int

\* std::istringstream: the characters not yet read, eofbit and failbit.
istringstream(str) == [rest |-> str, eof |-> FALSE, fail |-> FALSE]

\* std::getline(in, str, delim): the stream afterwards, the string read and
\* the stream's truth value.  str is cleared unless the stream was already
\* at its end; the delimiter is read and dropped; eofbit is set when the
\* characters run out before a delimiter, failbit when none was read.
getline(in, str, delim) ==
    IF in.eof \/ in.fail
    THEN [in |-> [in EXCEPT !.fail = TRUE], str |-> str, ok |-> FALSE]
    ELSE IF in.rest = << >>
    THEN [in |-> [in EXCEPT !.eof = TRUE, !.fail = TRUE], str |-> << >>,
          ok |-> FALSE]
    ELSE LET at == find(in.rest, <<delim>>, 0)
         IN  IF at = npos
             THEN [in |-> [in EXCEPT !.rest = << >>, !.eof = TRUE],
                   str |-> in.rest, ok |-> TRUE]
             ELSE [in |-> [in EXCEPT !.rest = substr(in.rest, at + 1)],
                   str |-> erase(in.rest, at), ok |-> TRUE]

RECURSIVE skipws(_)
skipws(str) ==
    IF str # << >> /\ isspace(Head(str)) THEN skipws(Tail(str)) ELSE str

RECURSIVE leadingDigits(_)
leadingDigits(str) ==
    IF str # << >> /\ isdigit(Head(str))
    THEN <<Head(str)>> \o leadingDigits(Tail(str))
    ELSE << >>

RECURSIVE digitsValue(_)
digitsValue(digits) ==
    IF digits = << >> THEN 0
    ELSE 10 * digitsValue(erase(digits, Len(digits) - 1))
         + (Code(digits[Len(digits)]) - 48)

\* istr >> int on the text str: white space is skipped, then an optional
\* sign and the digits that follow are read, and whatever comes after them
\* is left in the stream.  Without a digit the extraction fails and stores
\* 0; a value that does not fit is stored as the nearest int.
extractInt(str) ==
    LET text == skipws(str)
        signed == text # << >> /\ Head(text) \in {"+", "-"}
        digits == leadingDigits(IF signed THEN Tail(text) ELSE text)
        value == IF signed /\ Head(text) = "-"
                 THEN 0 - digitsValue(digits)
                 ELSE digitsValue(digits)
    IN  IF digits = << >> THEN 0
        ELSE IF value > IntMax THEN IntMax
        ELSE IF value < 0 - IntMax - 1 THEN 0 - IntMax - 1
        ELSE value

\* Path::fromNativeSeparators: every backslash becomes a slash.
fromNativeSeparators(path) ==
    [i \in 1..Len(path) |-> IF path[i] = "\\" THEN "/" ELSE path[i]]

\* The body of the inner if: the line number is split off the file name.
splitLineNumber(suppression) ==
    LET pos == rfind(suppression.fileName, ":")
    IN  IF pos # npos /\ find(suppression.fileName, <<".">>, pos) = npos
        THEN LET lineNumber == extractInt(substr(suppression.fileName, pos + 1))
             IN  IF lineNumber > 0
                 THEN [suppression EXCEPT !.lineNumber = lineNumber,
                                          !.fileName = erase(@, pos)]
                 ELSE [suppression EXCEPT !.lineNumber = lineNumber]
        ELSE suppression

\* The record addSuppressionLine hands to addSuppression.
lineSuppression(line) ==
    LET first == getline(istringstream(line), Suppression.errorId, ":")
        second == getline(first.in, Suppression.fileName, "\n")
        read == [Suppression EXCEPT !.errorId = first.str,
                                    !.fileName = second.str]
        suppression == IF first.ok /\ second.ok
                       THEN splitLineNumber(read)
                       ELSE read
    IN  [suppression EXCEPT !.fileName = fromNativeSeparators(@)]

addSuppressionLine(line) ==
    /\ op' = "addSuppressionLine"
    /\ arg' = line
    /\ ret' = addSuppressionMessage(lineSuppression(line))
    /\ _suppressions' = addSuppressionList(_suppressions, lineSuppression(line))
    /\ UNCHANGED queries

----------------------------------------------------------------------------
(* SpecLine: one call of addSuppressionLine on a drawn line.               *)

LineChars == {"a", "1", "0", ":", ".", "\\"}

InitLine ==
    /\ _suppressions \in {<< >>, <<EarlierRule>>}
    /\ op = "none"
    /\ arg \in StringsUpTo(LineChars, MaxLineLen)
    /\ ret = << >>
    /\ queries = << >>

NextLine == op = "none" /\ addSuppressionLine(arg)

SpecLine == InitLine /\ [][NextLine]_vars

\* The positions (1-based) of the character c in str.
PositionsOf(str, c) == {i \in 1..Len(str) : str[i] = c}
Min(S) == CHOOSE x \in S : \A y \in S : x <= y
Max(S) == CHOOSE x \in S : \A y \in S : x >= y

\* A decimal integer greater than 0: digits and nothing else.
IsPositiveInteger(str) ==
    /\ str # << >>
    /\ \A i \in 1..Len(str) : str[i] \in Digits
    /\ digitsValue(str) > 0

\* The three fields the line errorId[:fileName[:lineNumber]] stands for.
LineFields(line) ==
    LET colons == PositionsOf(line, ":")
        errorId == IF colons = {} THEN line
                   ELSE SubSeq(line, 1, Min(colons) - 1)
        remainder == IF colons = {} THEN << >>
                     ELSE SubSeq(line, Min(colons) + 1, Len(line))
        last == PositionsOf(remainder, ":")
        tail == IF last = {} THEN << >>
                ELSE SubSeq(remainder, Max(last) + 1, Len(remainder))
    IN  IF last # {} /\ PositionsOf(tail, ".") = {} /\ IsPositiveInteger(tail)
        THEN [errorId |-> errorId,
              fileName |-> SubSeq(remainder, 1, Max(last) - 1),
              lineNumber |-> digitsValue(tail)]
        ELSE [errorId |-> errorId, fileName |-> remainder, lineNumber |-> 0]

\* C5: the text before the first ':' is errorId and the rest the remainder;
\* when the remainder has a last ':' with no '.' after it and the text after
\* that colon is an integer > 0, that integer is lineNumber and the colon
\* and the text after it are removed from fileName; in every other case the
\* whole remainder is fileName and lineNumber stays "any" (<= 0).  fileName
\* is compared up to the normalization of its separators.
C5_LineTranslation ==
    (op = "addSuppressionLine" /\ ret = << >>) =>
        LET s == _suppressions[Len(_suppressions)]
            fields == LineFields(arg)
        IN  /\ s.errorId = fields.errorId
            /\ s.fileName = fromNativeSeparators(fields.fileName)
            /\ IF fields.lineNumber > 0
               THEN s.lineNumber = fields.lineNumber
               ELSE s.lineNumber <= 0

----------------------------------------------------------------------------
(* Suppressions::parseFile                                                 *)

RECURSIVE readLines(_, _, _)
\* while (std::getline(istr, line)) filedata += line + "\n";
readLines(istr, line, filedata) ==
    LET got == getline(istr, line, "\n")
    IN  IF got.ok
        THEN readLines(got.in, got.str, filedata \o got.str \o <<"\n">>)
        ELSE filedata

\* std::replace(begin, end, old, new)
replace(str, old, new) ==
    [i \in 1..Len(str) |-> IF str[i] = old THEN new ELSE str[i]]

isComment(line) == Len(line) >= 2 /\ line[1] = "/" /\ line[2] = "/"

RECURSIVE parseLinesPastErrors(_, _, _, _)
\* The loop without the return at a rejected line: the first message is
\* returned after the last line.
parseLinesPastErrors(istr2, line, list, errmsg) ==
    LET got == getline(istr2, line, "\n")
    IN  IF ~got.ok THEN [list |-> list, errmsg |-> errmsg]
        ELSE IF got.str = << >> \/ isComment(got.str)
        THEN parseLinesPastErrors(got.in, got.str, list, errmsg)
        ELSE parseLinesPastErrors(
                 got.in, got.str,
                 addSuppressionList(list, lineSuppression(got.str)),
                 IF errmsg = << >>
                 THEN addSuppressionMessage(lineSuppression(got.str))
                 ELSE errmsg)
parseLinesNoReturn(istr2, line, list) ==
    parseLinesPastErrors(istr2, line, list, << >>)

RECURSIVE parseLines(_, _, _)
\* The second while loop: the list afterwards and the message returned.
parseLines(istr2, line, list) ==
    LET got == getline(istr2, line, "\n")
    IN  IF ~got.ok THEN [list |-> list, errmsg |-> << >>]
        ELSE IF got.str = << >> THEN parseLines(got.in, got.str, list)
        ELSE IF isComment(got.str) THEN parseLines(got.in, got.str, list)
        ELSE LET errmsg == addSuppressionMessage(lineSuppression(got.str))
             IN  IF errmsg # << >>
                 THEN [list |-> addSuppressionList(list, lineSuppression(got.str)),
                       errmsg |-> errmsg]
                 ELSE parseLines(
                          got.in, got.str,
                          addSuppressionList(list, lineSuppression(got.str)))

\* The list and the message parseFile leaves for a stream that holds text.
parseFileResult(text, list) ==
    LET filedata == replace(readLines(istringstream(text), << >>, << >>),
                            "\r", "\n")
    IN  parseLines(istringstream(filedata), filedata, list)

parseFile(text) ==
    /\ op' = "parseFile"
    /\ arg' = text
    /\ ret' = parseFileResult(text, _suppressions).errmsg
    /\ _suppressions' = parseFileResult(text, _suppressions).list
    /\ UNCHANGED queries

----------------------------------------------------------------------------
(* SpecFile: one call of parseFile on a drawn stream.                      *)

FileChars == {"a", "1", "/", "\n", "\r"}

InitFile ==
    /\ _suppressions \in {<< >>, <<EarlierRule>>}
    /\ op = "none"
    /\ arg \in StringsUpTo(FileChars, MaxFileLen)
    /\ ret = << >>
    /\ queries = << >>

NextFile == op = "none" /\ parseFile(arg)

SpecFile == InitFile /\ [][NextFile]_vars

RECURSIVE SplitLines(_)
\* The lines of a text whose line breaks are "\n" and "\r".
SplitLines(text) ==
    LET breaks == PositionsOf(text, "\n") \cup PositionsOf(text, "\r")
    IN  IF breaks = {} THEN <<text>>
        ELSE <<SubSeq(text, 1, Min(breaks) - 1)>>
             \o SplitLines(SubSeq(text, Min(breaks) + 1, Len(text)))

\* The lines parseFile is to translate: not empty and not a comment.
IsRuleLine(line) == line # << >> /\ ~(Len(line) >= 2 /\ SubSeq(line, 1, 2) = <<"/", "/">>)
RuleLines(text) == SelectSeq(SplitLines(text), IsRuleLine)

\* The errorId of a line and whether the validator is to reject it.
IdOf(line) ==
    IF PositionsOf(line, ":") = {} THEN line
    ELSE SubSeq(line, 1, Min(PositionsOf(line, ":")) - 1)
IsRejected(line) == ~(IdOf(line) = <<"*">> \/ IsIdentifier(IdOf(line)))

\* How many of the lines come before the first rejected one.
AcceptedBefore(lines) ==
    Min({i \in 0..Len(lines) :
            i = Len(lines) \/ IsRejected(lines[i + 1])})

\* C7: parseFile stops at the first non-empty, non-comment line that is
\* rejected and returns that line's message; the rules of the accepted lines
\* before it are appended in their order, and no rule of a later line is;
\* when no line is rejected it returns the empty string.
C7_ParseFileStopsAtFirstError ==
    [][op' = "parseFile" =>
         LET lines == RuleLines(arg')
             n == AcceptedBefore(lines)
         IN  /\ _suppressions' =
                    _suppressions \o [i \in 1..n |-> lineSuppression(lines[i])]
             /\ \A i \in 1..n :
                    _suppressions'[Len(_suppressions) + i].errorId = IdOf(lines[i])
             /\ ret' = IF n = Len(lines) THEN << >>
                       ELSE IF IdOf(lines[n + 1]) = << >> THEN NoIdMessage
                       ELSE InvalidIdMessage(IdOf(lines[n + 1]))]_vars

\* An accepted line, then a rejected line, then a valid line that was not
\* added.
C7_Witness ==
    /\ op = "parseFile"
    /\ arg = <<"a", "\r", "1", "\n", "a">>
    /\ ret = InvalidIdMessage(<<"1">>)
    /\ Len(_suppressions) = 2
    /\ _suppressions[2].errorId = <<"a">>

----------------------------------------------------------------------------
(* Suppressions::parseXmlFile                                              *)

\* std::strcmp: 0 for equal strings, and not 0 for different ones.
strcmp(a, b) == IF a = b THEN 0 ELSE 1

\* std::atoi: white space, an optional sign and the digits that follow; 0
\* without a digit.  (The texts drawn here are too short to overflow.)
atoi(text) ==
    LET str == skipws(text)
        signed == str # << >> /\ Head(str) \in {"+", "-"}
        digits == leadingDigits(IF signed THEN Tail(str) ELSE str)
    IN  IF signed /\ Head(str) = "-" THEN 0 - digitsValue(digits)
        ELSE digitsValue(digits)

RECURSIVE xmlSuppression(_, _, _)
\* The loop over the children e2 of one element, from the i-th on: the
\* record s after it.
xmlSuppression(children, i, s) ==
    IF i > Len(children) THEN s
    ELSE LET e2 == children[i]
             text == e2.text
         IN  xmlSuppression(
                 children, i + 1,
                 IF strcmp(e2.name, "id") = 0
                 THEN [s EXCEPT !.errorId = text]
                 ELSE IF strcmp(e2.name, "fileName") = 0
                 THEN [s EXCEPT !.fileName = text]
                 ELSE IF strcmp(e2.name, "lineNumber") = 0
                 THEN [s EXCEPT !.lineNumber = atoi(text)]
                 ELSE IF strcmp(e2.name, "symbolName") = 0
                 THEN [s EXCEPT !.symbolName = text]
                 ELSE s)

RECURSIVE xmlElements(_, _, _)
\* The loop over the children e of the root, from the i-th on: the list
\* after it.  What addSuppression returns is not looked at.
xmlElements(elements, i, list) ==
    IF i > Len(elements) THEN list
    ELSE IF strcmp(elements[i].name, "suppress") # 0
    THEN xmlElements(
             elements, i + 1,
             addSuppressionList(
                 list, xmlSuppression(elements[i].children, 1, Suppression)))
    ELSE xmlElements(elements, i + 1, list)

parseXmlFile(doc) ==
    /\ op' = "parseXmlFile"
    /\ arg' = doc
    /\ IF doc.error = "XML_ERROR_FILE_NOT_FOUND"
       THEN /\ ret' = <<"File not found">>
            /\ UNCHANGED _suppressions
       ELSE /\ ret' = << >>
            /\ _suppressions' = xmlElements(doc.elements, 1, _suppressions)
    /\ UNCHANGED queries

----------------------------------------------------------------------------
(* SpecXml: one call of parseXmlFile on a drawn document.                  *)

\* The children an element of the root may have.
XmlChildren ==
    {<< >>,
     <<[name |-> "id", text |-> <<"a">>]>>,
     <<[name |-> "id", text |-> <<"1">>]>>,
     <<[name |-> "id", text |-> <<"b">>],
       [name |-> "fileName", text |-> <<"f">>],
       [name |-> "lineNumber", text |-> <<"1", "0">>],
       [name |-> "symbolName", text |-> <<"x">>]>>,
     <<[name |-> "comment", text |-> <<"a">>],
       [name |-> "id", text |-> <<"a">>],
       [name |-> "lineNumber", text |-> << >>]>>}

XmlElements == [name : {"suppress", "note"}, children : XmlChildren]

RECURSIVE ListsUpTo(_, _)
ListsUpTo(S, n) ==
    IF n = 0 THEN {<< >>}
    ELSE ListsUpTo(S, n - 1) \cup
         {Append(l, x) : l \in ListsUpTo(S, n - 1), x \in S}

XmlDocuments ==
    {[error |-> "XML_SUCCESS", elements |-> l] :
         l \in ListsUpTo(XmlElements, MaxElements)}
      \cup {[error |-> "XML_ERROR_FILE_NOT_FOUND", elements |-> << >>]}

InitXml ==
    /\ _suppressions \in {<< >>, <<EarlierRule>>}
    /\ op = "none"
    /\ arg \in XmlDocuments
    /\ ret = << >>
    /\ queries = << >>

NextXml == op = "none" /\ parseXmlFile(arg)

SpecXml == InitXml /\ [][NextXml]_vars

\* The text of the last child of the element with the given tag.
TextOf(element, tag, default) ==
    LET at == {i \in 1..Len(element.children) : element.children[i].name = tag}
    IN  IF at = {} THEN default ELSE element.children[Max(at)].text

\* The rule a <suppress> element stands for.
RuleOf(element) ==
    [errorId |-> TextOf(element, "id", << >>),
     fileName |-> TextOf(element, "fileName", << >>),
     lineNumber |-> LET text == TextOf(element, "lineNumber", << >>)
                    IN  IF text # << >> /\ \A i \in 1..Len(text) : text[i] \in Digits
                        THEN digitsValue(text) ELSE 0,
     symbolName |-> TextOf(element, "symbolName", << >>),
     matched |-> FALSE]

IsSuppress(element) == element.name = "suppress"
HasValidId(element) ==
    RuleOf(element).errorId = <<"*">> \/ IsIdentifier(RuleOf(element).errorId)

\* The <suppress> children of the root, in their order.
Entries(doc) == SelectSeq(doc.elements, IsSuppress)

\* C6: parseXmlFile creates one suppression for each child of the root that
\* is named "suppress", filled from its id, fileName, lineNumber and
\* symbolName children, and none for a child with any other name (stated
\* for the documents whose <suppress> elements all have a valid id).
C6_OneRulePerSuppressElement ==
    [][(/\ op' = "parseXmlFile"
        /\ arg'.error = "XML_SUCCESS"
        /\ \A i \in 1..Len(Entries(arg')) : HasValidId(Entries(arg')[i]))
         => _suppressions' =
                _suppressions \o [i \in 1..Len(Entries(arg')) |->
                                      RuleOf(Entries(arg')[i])]]_vars

\* C8: parseXmlFile returns a non-empty message when the record of an entry
\* fails validation and adds nothing of the entries after it; it returns
\* the empty string only when every entry was appended.
C8_XmlErrorIsReturned ==
    [][(op' = "parseXmlFile" /\ arg'.error = "XML_SUCCESS") =>
         LET entries == Entries(arg')
             n == Min({i \in 0..Len(entries) :
                          i = Len(entries) \/ ~HasValidId(entries[i + 1])})
         IN  /\ n < Len(entries) => ret' # << >>
             /\ Len(_suppressions') <= Len(_suppressions) + n
             /\ ret' = << >> => Len(_suppressions') = Len(_suppressions) + Len(entries)]_vars

====
